---- MODULE Spec2Model ----
(***************************************************************************)
(* Chesspresso: the game engine (core/src/game.rs), the persistent store   *)
(* (core/src/db.rs) and the rollup application (dapp/src/main.rs).         *)
(*                                                                         *)
(* Four specifications share the variables:                                *)
(*   SpecEngine  one in-memory Game driven through Game::play and          *)
(*               Game::play_next_move;                                     *)
(*   Spec        the rollup application handling advance inputs against    *)
(*               its store, one input per step (the finish loop is         *)
(*               single-threaded: a handler runs to completion);           *)
(*   SpecStore   the store's operations, Db::end_game statement by         *)
(*               statement inside its transaction;                         *)
(*   SpecDaemon  the client daemon (client/src/main.rs): its listener      *)
(*               tasks, the mutex around its local store, and the indexer  *)
(*               streams (indexer/src/inspect.rs) polling a rollup.        *)
(*                                                                         *)
(* Abstractions, all of external libraries:                                *)
(*   - keccak256 is collision free: a digest is modelled by its preimage   *)
(*     ([id, white, black, chain of notations]);                           *)
(*   - the chess rules library (shakmaty) is a small rule set over         *)
(*     positions [turn, st, dev] that keeps what the engine reads from it: *)
(*     the side to move, the legality of a SAN in a position, check,       *)
(*     checkmate, stalemate, insufficient material, and two SAN spellings  *)
(*     of one move;                                                        *)
(*   - a SAN text is [body, tail]: tail is the check/mate suffix           *)
(*     character ("", "+" or "#").                                         *)
(***************************************************************************)
EXTENDS Integers, Sequences, FiniteSets, TLC

VARIABLES
    users,      \* store: the user table, address -> rating and counters
    games,      \* store: the game table, id -> [white, black]
    moves,      \* store: the move table, a set of rows [game, half_move, san]
    seq,        \* store: the last id the game table assigned
    pc,         \* the finish loop: "finish" before POST /finish, "request" after
    status,     \* the finish loop's status variable
    req,        \* the advance input of this iteration of the loop
    err,        \* the error handle_advance returned in this iteration, or ""
    outbox,     \* what this iteration posted to the host, in order
    accepted,   \* history: how often each <<id, hash>> came in an accepted Move
    g,          \* engine specification: the Game under test
    call,       \* engine specification: the last call and its result
    trail,      \* engine specification: the moves made since Init
    tx,         \* store specification: the transaction of Db::end_game in progress
    lock,       \* daemon specification: the task holding the store mutex, or NoTask
    tasks,      \* daemon specification: each spawned task's position and locals
    local       \* daemon specification: the daemon's local store

storeVars == <<users, games, moves, seq>>
rollupVars == <<users, games, moves, seq, pc, status, req, err, outbox, accepted>>
engineVars == <<g, call, trail>>
daemonVars == <<lock, tasks, local>>
vars ==
    <<users, games, moves, seq, pc, status, req, err, outbox, accepted, g, call, trail,
      tx, lock, tasks, local>>

----------------------------------------------------------------------------
(* Bounds *)

\* ids the store hands out before Challenge inputs stop being drawn
MaxGames == 2
\* plies per game in the rollup specification
MaxPly == 3
\* plies played on top of the initial game in the engine specification
MaxEnginePly == 4
\* games created in the store specification
MaxStoreGames == 3
\* games and plies per game on the rollup in the daemon specification
MaxDaemonGames == 2
MaxDaemonPly == 2

----------------------------------------------------------------------------
(* Addresses, colours *)

Players == {"alice", "bob"}
Senders == Players \cup {"carol"}

White == "white"
Black == "black"

\* shakmaty::Color's `!`
Not(color) == IF color = White THEN Black ELSE White

----------------------------------------------------------------------------
(* SAN texts: San::from_str and SanPlus::to_string *)

\* the SAN bodies San::from_str accepts
SanSyntax == {"Nf3", "Qh5", "Qf7", "Qhf7", "Qc8", "Kxd1"}

NoSan == "?"

\* San::from_str: a check or mate suffix is dropped, the rest must be SAN
ParseSan(text) == IF text.body \in SanSyntax THEN text.body ELSE NoSan

SuffixChar(suffix) ==
    CASE suffix = "Checkmate" -> "#"
      [] suffix = "Check" -> "+"
      [] OTHER -> ""

\* SanPlus::to_string: the SAN as given, then the suffix character
SanPlusToString(sanplus) == [body |-> sanplus.san, tail |-> SuffixChar(sanplus.suffix)]

----------------------------------------------------------------------------
(* The rules library: positions and moves *)

StartPos == [turn |-> White, st |-> "quiet", dev |-> 0]

NoMove == "none"

\* the moves the rules allow in a position
LegalMoves(pos) ==
    CASE pos.st \in {"mate", "stale"} -> {}
      [] pos.st = "check" -> {"N"}
      [] pos.st = "insuff" -> {"N"}
      [] OTHER -> {"N"} \cup (IF pos.dev >= 1 THEN {"Qh5"} ELSE {})
                        \cup (IF pos.dev >= 2 THEN {"Qf7", "Qc8", "Kxd1"} ELSE {})

\* the moves a SAN can denote: "Qhf7" names the queen's file as well, and
\* denotes the move "Qf7" does
SanCandidates(san, pos) ==
    CASE san = "Nf3" -> {"N"}
      [] san \in {"Qf7", "Qhf7"} -> {"Qf7"}
      [] san \in {"Qh5", "Qc8", "Kxd1"} -> {san}
      [] OTHER -> {}

\* San::to_move: the one legal move the SAN denotes, if any
ToMove(san, pos) ==
    LET ms == SanCandidates(san, pos) \cap LegalMoves(pos)
    IN IF ms = {} THEN NoMove ELSE CHOOSE m \in ms : TRUE

\* Position::play
PlayMove(pos, m) ==
    [turn |-> Not(pos.turn),
     st |-> CASE m = "Qh5" -> "check"
              [] m = "Qf7" -> "mate"
              [] m = "Qc8" -> "stale"
              [] m = "Kxd1" -> "insuff"
              [] OTHER -> IF pos.st = "insuff" THEN "insuff" ELSE "quiet",
     dev |-> IF m = "N" /\ pos.dev < 2 THEN pos.dev + 1 ELSE pos.dev]

IsCheckmate(pos) == pos.st = "mate"
IsCheck(pos) == pos.st \in {"check", "mate"}
IsStalemate(pos) == pos.st = "stale"
IsInsufficientMaterial(pos) == pos.st = "insuff"

\* Position::outcome: "none", or decisive for the side that just moved, or draw
PositionOutcome(pos) ==
    CASE IsCheckmate(pos) -> [kind |-> "Decisive", winner |-> Not(pos.turn)]
      [] IsStalemate(pos) \/ IsInsufficientMaterial(pos) -> [kind |-> "Draw", winner |-> "-"]
      [] OTHER -> [kind |-> "None", winner |-> "-"]

----------------------------------------------------------------------------
(* The game engine: core/src/game.rs *)

\* the largest value of Game::half_move (u16)
U16Max == 65535

\* keccak256 over a preimage; Game::new hashes the id and the two addresses
InitialHash(id, white, black) == [id |-> id, white |-> white, black |-> black, chain |-> <<>>]

\* keccak256(hash || notation)
ExtendHash(hash, text) == [hash EXCEPT !.chain = Append(@, text)]

\* Game::new
New(id, white, black) ==
    [white |-> white, black |-> black, position |-> StartPos, half_move |-> 0,
     id |-> id, hash |-> InitialHash(id, white, black)]

\* Game::player_color
PlayerColor(game, player) ==
    IF game.white = player THEN White
    ELSE IF game.black = player THEN Black
    ELSE "none"

\* Game::player
Player(game, color) == IF color = White THEN game.white ELSE game.black

\* Game::turn
Turn(game) == game.position.turn

\* outcome with the mated side reported as the winner
OutcomeLoserWins(game) ==
    LET o == PositionOutcome(game.position)
    IN CASE o.kind = "None" -> [kind |-> "None", winner |-> "-", loser |-> "-"]
         [] o.kind = "Decisive" ->
                [kind |-> "Checkmate", winner |-> Player(game, Not(o.winner)),
                 loser |-> Player(game, o.winner)]
         [] OTHER ->
                [kind |-> IF IsStalemate(game.position) THEN "Stalemate"
                          ELSE IF IsInsufficientMaterial(game.position)
                               THEN "InsufficientMaterial" ELSE "Draw",
                 winner |-> "-", loser |-> "-"]

\* Game::outcome
Outcome(game) ==
    LET o == PositionOutcome(game.position)
    IN CASE o.kind = "None" -> [kind |-> "None", winner |-> "-", loser |-> "-"]
         [] o.kind = "Decisive" ->
                [kind |-> "Checkmate", winner |-> Player(game, o.winner),
                 loser |-> Player(game, Not(o.winner))]
         [] OTHER ->
                [kind |-> IF IsStalemate(game.position) THEN "Stalemate"
                          ELSE IF IsInsufficientMaterial(game.position)
                               THEN "InsufficientMaterial" ELSE "Draw",
                 winner |-> "-", loser |-> "-"]

\* Outcome::winner_loser is Some
IsVictory(outcome) == outcome.kind \in {"Checkmate", "Resignation"}

NoMoveMade == [san |-> [san |-> NoSan, suffix |-> "None"], half_move |-> 0]

Failed(game, e) ==
    [ok |-> FALSE, panic |-> FALSE, err |-> e, game |-> game, move |-> NoMoveMade]

\* the canonical suffix of the move that led to `pos`
SuffixOf(pos) ==
    IF IsCheckmate(pos) THEN "Checkmate"
    ELSE IF IsCheck(pos) THEN "Check"
    ELSE "None"

\* lines 233-253 of play_next_move, once the position has moved to `pos`
\* and the counter has become `half_move`
Moved(game, san, pos, half_move) ==
    LET notation == [san |-> san, suffix |-> SuffixOf(pos)]
    IN [ok |-> TRUE, panic |-> FALSE, err |-> "",
        game |-> [game EXCEPT !.position = pos, !.half_move = half_move,
                              !.hash = ExtendHash(game.hash, SanPlusToString(notation))],
        move |-> [san |-> notation, half_move |-> half_move]]

\* Game::play_next_move: the set of results the build can produce.  `+= 1` on
\* a u16 at 65535 panics with overflow checks on and wraps without them.
PlayNextMove(game, san) ==
    LET m == ToMove(san, game.position)
        pos == PlayMove(game.position, m)
    IN IF m = NoMove THEN {Failed(game, "illegal move")}
       ELSE IF game.half_move < U16Max
            THEN {Moved(game, san, pos, game.half_move + 1)}
            ELSE {Moved(game, san, pos, (game.half_move + 1) % (U16Max + 1)),
                  [Failed([game EXCEPT !.position = pos], "overflow") EXCEPT !.panic = TRUE]}

\* play without the comparison of the expected state with the hash
PlayAnyState(game, player, expected_state, san) ==
    LET color == PlayerColor(game, player)
    IN IF color = "none" THEN {Failed(game, "invalid player")}
       ELSE IF Turn(game) # color THEN {Failed(game, "not your turn")}
       ELSE PlayNextMove(game, san)

\* play with the state compared before the turn
PlayStateFirst(game, player, expected_state, san) ==
    LET color == PlayerColor(game, player)
    IN IF color = "none" THEN {Failed(game, "invalid player")}
       ELSE IF expected_state # game.hash THEN {Failed(game, "state mismatch")}
       ELSE IF Turn(game) # color THEN {Failed(game, "not your turn")}
       ELSE PlayNextMove(game, san)

\* Game::play
Play(game, player, expected_state, san) ==
    LET color == PlayerColor(game, player)
    IN IF color = "none" THEN {Failed(game, "invalid player")}
       ELSE IF Turn(game) # color THEN {Failed(game, "not your turn")}
       ELSE IF expected_state # game.hash THEN {Failed(game, "state mismatch")}
       ELSE PlayNextMove(game, san)

RECURSIVE Replay(_, _)
\* the loop of Game::from_moves: stop at the first move that fails
Replay(game, sans) ==
    IF sans = <<>> THEN {[Failed(game, "") EXCEPT !.ok = TRUE]}
    ELSE UNION {IF r.ok THEN Replay(r.game, Tail(sans)) ELSE {r} :
                r \in PlayNextMove(game, Head(sans))}

\* from_moves with the two players exchanged in its call of Game::new
FromMovesSwapped(id, white, black, sans) == Replay(New(id, black, white), sans)

\* Game::from_moves
FromMoves(id, white, black, sans) == Replay(New(id, white, black), sans)

----------------------------------------------------------------------------
(* Ratings: core/src/rating.rs over the glicko2 library *)

\* rating::unrated.  A rating is one integer here: the library's value,
\* deviation and volatility are not told apart.
Unrated == 0

\* rating::update for one result against `opponent`: the gain depends on
\* the result and on how the opponent's rating compares
Update(rating, result, opponent) ==
    CASE result = "win" -> rating + (IF opponent >= rating THEN 2 ELSE 1)
      [] result = "loss" -> rating - (IF opponent <= rating THEN 2 ELSE 1)
      [] OTHER -> IF opponent > rating THEN rating + 1
                  ELSE IF opponent < rating THEN rating - 1
                  ELSE rating

----------------------------------------------------------------------------
(* The persistent store: core/src/db.rs *)

Store == [users |-> users, games |-> games, moves |-> moves, seq |-> seq]

NewUser ==
    [elo |-> Unrated, white_wins |-> 0, white_losses |-> 0, white_draws |-> 0,
     black_wins |-> 0, black_losses |-> 0, black_draws |-> 0]

\* INSERT OR REPLACE INTO user: the row of a known address starts over
EnsureUserReplace(table, address) ==
    [a \in DOMAIN table \cup {address} |-> IF a = address THEN NewUser ELSE table[a]]

\* INSERT OR IGNORE INTO user
EnsureUser(table, address) ==
    IF address \in DOMAIN table THEN table ELSE table @@ (address :> NewUser)

\* the id INSERT INTO game assigns: the column is an autoincrement key
AssignedId(db) == db.seq + 1

\* new_game with a key that takes the lowest id no game row holds
NewGameLowestFree(db, white, black) ==
    LET id == CHOOSE free \in 1..(db.seq + 1) :
                 /\ free \notin DOMAIN db.games
                 /\ \A lower \in 1..(free - 1) : lower \in DOMAIN db.games
    IN [db |-> [db EXCEPT !.users = EnsureUser(EnsureUser(@, white), black),
                          !.games = @ @@ (id :> [white |-> white, black |-> black]),
                          !.seq = IF id > @ THEN id ELSE @],
        game |-> New(id, white, black)]

\* Db::new_game
NewGame(db, white, black) ==
    LET id == AssignedId(db)
    IN [db |-> [db EXCEPT !.users = EnsureUser(EnsureUser(@, white), black),
                          !.games = @ @@ (id :> [white |-> white, black |-> black]),
                          !.seq = id],
        game |-> New(id, white, black)]

MoveRows(db, id) == {row \in db.moves : row.game = id}

RECURSIVE OrderByHalfMove(_)
\* ORDER BY half_move
OrderByHalfMove(rows) ==
    IF rows = {} THEN <<>>
    ELSE LET first == CHOOSE row \in rows : \A other \in rows : row.half_move <= other.half_move
         IN <<first>> \o OrderByHalfMove(rows \ {first})

\* SELECT san FROM move WHERE game = id AND half_move >= from ORDER BY half_move
SelectSans(db, id, from) ==
    LET rows == OrderByHalfMove({row \in MoveRows(db, id) : row.half_move >= from})
    IN [i \in 1..Len(rows) |-> rows[i].san]

NoGame == New(0, "-", "-")

\* Db::game replaying the moves of an id that has no game row, as a game
\* of alice against bob
DbGameWithoutRow(db, id) ==
    LET texts == SelectSans(db, id, 0)
        sans == [i \in 1..Len(texts) |-> ParseSan(texts[i])]
        white == IF id \in DOMAIN db.games THEN db.games[id].white ELSE "alice"
        black == IF id \in DOMAIN db.games THEN db.games[id].black ELSE "bob"
    IN IF \E i \in 1..Len(sans) : sans[i] = NoSan
       THEN {Failed(NoGame, "invalid san")}
       ELSE FromMoves(id, white, black, sans)

\* Db::game: the set of results of the replay
DbGame(db, id) ==
    IF id \notin DOMAIN db.games THEN {Failed(NoGame, "game not found")}
    ELSE LET texts == SelectSans(db, id, 0)
             sans == [i \in 1..Len(texts) |-> ParseSan(texts[i])]
         IN IF \E i \in 1..Len(sans) : sans[i] = NoSan
            THEN {Failed(NoGame, "invalid san")}
            ELSE FromMoves(id, db.games[id].white, db.games[id].black, sans)

\* game_notation printing a number before every move
NotationNumbered(texts, i) ==
    [k \in 1..Len(texts) |-> [number |-> i + k - 1, san |-> texts[k]]]

RECURSIVE NotationFrom(_, _)
\* the loop of Db::game_notation from full move `i` on: "{i}.{white_move} "
\* and, when there is one, "{black_move} "
NotationFrom(texts, i) ==
    IF texts = <<>> THEN <<>>
    ELSE LET white_move == <<[number |-> i, san |-> texts[1]]>>
         IN IF Len(texts) = 1 THEN white_move
            ELSE white_move \o <<[number |-> 0, san |-> texts[2]]>>
                    \o NotationFrom(SubSeq(texts, 3, Len(texts)), i + 1)

\* Db::game_notation: the string as its tokens, each followed by a space;
\* `number` is the full move printed before a white move, 0 for none
GameNotation(db, id) == NotationFrom(SelectSans(db, id, 0), 1)

\* Db::record_move; the row's key is (game, half_move)
RecordMove(db, id, m) ==
    IF \E row \in db.moves : row.game = id /\ row.half_move = m.half_move
    THEN [ok |-> FALSE, db |-> db]
    ELSE [ok |-> TRUE,
          db |-> [db EXCEPT !.moves = @ \cup {[game |-> id, half_move |-> m.half_move,
                                               san |-> SanPlusToString(m.san)]}]]

\* set_elo, and the UPDATE of one counter: no row, no effect
SetElo(table, address, elo) ==
    IF address \in DOMAIN table THEN [table EXCEPT ![address].elo = elo] ELSE table

Increment(table, address, counter) ==
    IF address \in DOMAIN table THEN [table EXCEPT ![address][counter] = @ + 1] ELSE table

\* the transaction of Db::end_game for a decisive outcome
EndDecisive(table, game, winner, loser) ==
    LET winner_current_elo == table[winner].elo
        loser_current_elo == table[loser].elo
        rated == SetElo(SetElo(table, winner, Update(winner_current_elo, "win", loser_current_elo)),
                        loser, Update(loser_current_elo, "loss", winner_current_elo))
    IN IF winner = game.white
       THEN Increment(Increment(rated, winner, "white_wins"), loser, "black_losses")
       ELSE Increment(Increment(rated, winner, "black_wins"), loser, "white_losses")

\* the transaction of Db::end_game for a draw
EndDrawn(table, game) ==
    LET white_current_elo == table[game.white].elo
        black_current_elo == table[game.black].elo
        rated == SetElo(SetElo(table, game.white, Update(white_current_elo, "draw", black_current_elo)),
                        game.black, Update(black_current_elo, "draw", white_current_elo))
    IN Increment(Increment(rated, game.white, "white_draws"), game.black, "black_draws")

\* end_game deleting the moves of the game with its row
DbEndGameWithMoves(db, game, outcome) ==
    LET rated == IF IsVictory(outcome) THEN {outcome.winner, outcome.loser}
                 ELSE {game.white, game.black}
    IN IF ~(rated \subseteq DOMAIN db.users) THEN [ok |-> FALSE, db |-> db]
       ELSE [ok |-> TRUE,
             db |-> [db EXCEPT
                       !.users = IF IsVictory(outcome)
                                 THEN EndDecisive(@, game, outcome.winner, outcome.loser)
                                 ELSE EndDrawn(@, game),
                       !.games = [id \in DOMAIN @ \ {game.id} |-> @[id]],
                       !.moves = {row \in @ : row.game # game.id}]]

\* Db::end_game(game, Some(outcome)): get_elo fails on an address without a
\* row, and the transaction is then dropped with nothing applied
DbEndGame(db, game, outcome) ==
    LET rated == IF IsVictory(outcome) THEN {outcome.winner, outcome.loser}
                 ELSE {game.white, game.black}
    IN IF ~(rated \subseteq DOMAIN db.users) THEN [ok |-> FALSE, db |-> db]
       ELSE [ok |-> TRUE,
             db |-> [db EXCEPT
                       !.users = IF IsVictory(outcome)
                                 THEN EndDecisive(@, game, outcome.winner, outcome.loser)
                                 ELSE EndDrawn(@, game),
                       !.games = [id \in DOMAIN @ \ {game.id} |-> @[id]]]]

----------------------------------------------------------------------------
(* The store's queries: Db::games, Db::user_stats *)

\* the largest game id (GameId is an i32)
I32Max == 2147483647

\* Option::None for `after`
NoAfter == [some |-> FALSE, id |-> 0]
After(id) == [some |-> TRUE, id |-> id]

RECURSIVE OrderById(_)
\* ORDER BY id
OrderById(ids) ==
    IF ids = {} THEN <<>>
    ELSE LET first == CHOOSE id \in ids : \A other \in ids : id <= other
         IN <<first>> \o OrderById(ids \ {first})

\* SELECT id, white, black FROM game WHERE id >= from AND address IN (white, black)
\* ORDER BY id
SelectGames(db, address, from) ==
    LET ids == OrderById({id \in DOMAIN db.games :
                            /\ id >= from
                            /\ address \in {db.games[id].white, db.games[id].black}})
    IN [i \in 1..Len(ids) |->
          [id |-> ids[i], white |-> db.games[ids[i]].white, black |-> db.games[ids[i]].black]]

\* Db::games.  `i32::from(id) + 1` is unchecked: at the largest id it wraps
\* to the smallest i32, or panics where overflow is checked
DbGames(db, address, after) ==
    IF ~after.some THEN {[panic |-> FALSE, rows |-> SelectGames(db, address, 0)]}
    ELSE IF after.id = I32Max
         THEN {[panic |-> FALSE, rows |-> SelectGames(db, address, -I32Max - 1)],
               [panic |-> TRUE, rows |-> <<>>]}
         ELSE {[panic |-> FALSE, rows |-> SelectGames(db, address, after.id + 1)]}

\* `as u16` on a counter read as i32
AsU16(n) == n % (U16Max + 1)

\* GlickoRating::from(Glicko2Rating): the rating on the Glicko scale
GlickoValue(elo) == 1500 + 173 * elo

\* Db::user_stats; fetch_optional finds no row for an unknown address
DbUserStats(db, address) ==
    IF address \notin DOMAIN db.users THEN [ok |-> FALSE, stats |-> <<>>]
    ELSE [ok |-> TRUE,
          stats |-> [c \in DOMAIN db.users[address] |->
                       IF c = "elo" THEN GlickoValue(db.users[address].elo)
                       ELSE AsU16(db.users[address][c])]]

----------------------------------------------------------------------------
(* Db::end_game statement by statement: the transaction it runs in *)

NoOutcome == [kind |-> "None", winner |-> "-", loser |-> "-"]

\* no transaction is open; `result` is how the last end_game returned
NoTx ==
    [open |-> FALSE, step |-> 0, users |-> <<>>, games |-> <<>>, game |-> NoGame,
     outcome |-> NoOutcome, first_elo |-> Unrated, second_elo |-> Unrated, result |-> ""]

\* self.conn.begin(): the statements that follow read and write the
\* transaction's view of the tables
Begin(db, game, outcome) ==
    [open |-> TRUE, step |-> 1, users |-> db.users, games |-> db.games, game |-> game,
     outcome |-> outcome, first_elo |-> Unrated, second_elo |-> Unrated, result |-> ""]

\* the address rated first (the winner, or white of a draw) and second
FirstRated(t) == IF IsVictory(t.outcome) THEN t.outcome.winner ELSE t.game.white
SecondRated(t) == IF IsVictory(t.outcome) THEN t.outcome.loser ELSE t.game.black

\* GameResult::win / draw for the first, GameResult::loss / draw for the second
FirstResult(t) == IF IsVictory(t.outcome) THEN "win" ELSE "draw"
SecondResult(t) == IF IsVictory(t.outcome) THEN "loss" ELSE "draw"

\* the second rating computed from the first's stored rating at that point
SecondRatingFromStored(t) ==
    Update(t.second_elo, SecondResult(t), t.users[FirstRated(t)].elo)

\* the ratings written by the two set_elo calls
FirstRating(t) == Update(t.first_elo, FirstResult(t), t.second_elo)
SecondRating(t) == Update(t.second_elo, SecondResult(t), t.first_elo)

\* both counters taken from the winner's colour
SecondCounterSameColour(t) ==
    IF ~IsVictory(t.outcome) THEN "black_draws"
    ELSE IF t.outcome.winner = t.game.white THEN "white_losses" ELSE "black_losses"

\* the winner's counter taken to be white_wins whatever the winner's colour
FirstCounterAlwaysWhite(t) ==
    IF ~IsVictory(t.outcome) THEN "white_draws" ELSE "white_wins"

\* the counters of the two UPDATE user SET statements
FirstCounter(t) ==
    IF ~IsVictory(t.outcome) THEN "white_draws"
    ELSE IF t.outcome.winner = t.game.white THEN "white_wins" ELSE "black_wins"
SecondCounter(t) ==
    IF ~IsVictory(t.outcome) THEN "black_draws"
    ELSE IF t.outcome.winner = t.game.white THEN "black_losses" ELSE "white_losses"

\* the statements of Db::end_game before commit: get_elo twice, set_elo
\* twice, two counter updates, DELETE FROM game
LastStatement == 7

\* get_elo is fetch_one: it fails when the address has no row
Executable(t) ==
    CASE t.step = 1 -> FirstRated(t) \in DOMAIN t.users
      [] t.step = 2 -> SecondRated(t) \in DOMAIN t.users
      [] OTHER -> TRUE

\* the transaction after its statement number t.step
Statement(t) ==
    LET done ==
          CASE t.step = 1 -> [t EXCEPT !.first_elo = t.users[FirstRated(t)].elo]
            [] t.step = 2 -> [t EXCEPT !.second_elo = t.users[SecondRated(t)].elo]
            [] t.step = 3 -> [t EXCEPT !.users = SetElo(@, FirstRated(t), FirstRating(t))]
            [] t.step = 4 -> [t EXCEPT !.users = SetElo(@, SecondRated(t), SecondRating(t))]
            [] t.step = 5 -> [t EXCEPT !.users = Increment(@, FirstRated(t), FirstCounter(t))]
            [] t.step = 6 -> [t EXCEPT !.users = Increment(@, SecondRated(t), SecondCounter(t))]
            [] OTHER -> [t EXCEPT !.games = [id \in DOMAIN @ \ {t.game.id} |-> @[id]]]
    IN [done EXCEPT !.step = @ + 1]

\* tx.commit()
Committed(db, t) == [db EXCEPT !.users = t.users, !.games = t.games]

\* a transaction dropped with its writes kept
DroppedKeepsWrites(db, t) == [db EXCEPT !.users = t.users, !.games = t.games]

\* an error leaves end_game through `?`: the transaction is dropped without
\* commit, which rolls it back
Dropped(db, t) == db

----------------------------------------------------------------------------
(* The rollup application: dapp/src/main.rs *)

\* Outcome's Display
Message(outcome) ==
    CASE outcome.kind = "Checkmate" -> <<outcome.winner, "defeats", outcome.loser, "by checkmate">>
      [] outcome.kind = "Resignation" -> <<outcome.winner, "wins by resignation">>
      [] outcome.kind = "Stalemate" -> <<"the game ends in a draw due to stalemate">>
      [] outcome.kind = "InsufficientMaterial" ->
             <<"the game ends in a draw due to insufficient material">>
      [] OTHER -> <<"the game is drawn">>

\* notice::Victory, posted to /notice
Victory(id, outcome, notation) ==
    [post |-> "notice", type |-> "Victory", id |-> id, winner |-> outcome.winner,
     loser |-> outcome.loser, message |-> Message(outcome), notation |-> notation]

\* Report::Draw, posted to /report
DrawReport(id, outcome, notation) ==
    [post |-> "report", type |-> "draw", id |-> id, winner |-> "-",
     loser |-> "-", message |-> Message(outcome), notation |-> notation]

\* how a handler ends: the store it leaves, Ok or the error, what it posted
Ok(db, posted) == [db |-> db, ok |-> TRUE, panic |-> FALSE, err |-> "", posted |-> posted]
Err(db, e, posted) == [db |-> db, ok |-> FALSE, panic |-> FALSE, err |-> e, posted |-> posted]
Panic(db) == [db |-> db, ok |-> FALSE, panic |-> TRUE, err |-> "overflow", posted |-> <<>>]

\* App::end_game: the notice of a victory or the report of a draw
Artefact(db, game, outcome) ==
    LET notation == GameNotation(db, game.id)
    IN IF IsVictory(outcome) THEN Victory(game.id, outcome, notation)
       ELSE DrawReport(game.id, outcome, notation)

\* App::end_game; `hostOk` is whether the host answers the post with success
AppEndGame(db, game, outcome, hostOk) ==
    LET artefact == Artefact(db, game, outcome)
        ended == DbEndGame(db, game, outcome)
    IN IF ~hostOk THEN Err(db, "failed to post", <<>>)
       ELSE IF ~ended.ok THEN Err(db, "storage", <<artefact>>)
       ELSE Ok(ended.db, <<artefact>>)

\* Advance::Challenge with the sender as white whether or not a first move
\* comes with it
HandleChallengeSenderWhite(db, r) ==
    LET some == r.first_move # <<>>
        created == NewGame(db, r.sender, r.opponent)
        san == ParseSan(r.first_move[1])
    IN IF ~some THEN {Ok(created.db, <<>>)}
       ELSE IF san = NoSan THEN {Err(created.db, "invalid first move", <<>>)}
       ELSE {IF p.panic THEN Panic(created.db)
             ELSE IF ~p.ok THEN Err(created.db, p.err, <<>>)
             ELSE LET recorded == RecordMove(created.db, created.game.id, p.move)
                  IN IF recorded.ok THEN Ok(recorded.db, <<>>)
                     ELSE Err(created.db, "storage", <<>>) :
             p \in Play(created.game, r.sender, created.game.hash, san)}

\* Advance::Challenge with the sides decided either way
HandleChallengeEitherSide(db, r) ==
    HandleChallengeSenderWhite(db, r)
        \cup HandleChallengeSenderWhite(db, [r EXCEPT !.sender = r.opponent,
                                                      !.opponent = r.sender])

\* handle_advance, Advance::Challenge
HandleChallenge(db, r) ==
    LET some == r.first_move # <<>>
        white == IF some THEN r.sender ELSE r.opponent
        black == IF some THEN r.opponent ELSE r.sender
        created == NewGame(db, white, black)
        san == ParseSan(r.first_move[1])
    IN IF ~some THEN {Ok(created.db, <<>>)}
       ELSE IF san = NoSan THEN {Err(created.db, "invalid first move", <<>>)}
       ELSE {IF p.panic THEN Panic(created.db)
             ELSE IF ~p.ok THEN Err(created.db, p.err, <<>>)
             ELSE LET recorded == RecordMove(created.db, created.game.id, p.move)
                  IN IF recorded.ok THEN Ok(recorded.db, <<>>)
                     ELSE Err(created.db, "storage", <<>>) :
             p \in Play(created.game, r.sender, created.game.hash, san)}

\* handle_advance, Advance::Move, after Db::game has returned `game`
MoveIn(db, r, game, hostOk) ==
    LET san == ParseSan(r.san)
    IN IF san = NoSan THEN {Err(db, "invalid move", <<>>)}
       ELSE {IF p.panic THEN Panic(db)
             ELSE IF ~p.ok THEN Err(db, p.err, <<>>)
             ELSE LET recorded == RecordMove(db, r.id, p.move)
                      outcome == Outcome(p.game)
                  IN IF ~recorded.ok THEN Err(db, "storage", <<>>)
                     ELSE IF outcome.kind = "None" THEN Ok(recorded.db, <<>>)
                     ELSE AppEndGame(recorded.db, p.game, outcome, hostOk) :
             p \in Play(game, r.sender, r.hash, san)}

\* handle_advance, Advance::Move
HandleMove(db, r, hostOk) ==
    UNION {IF loaded.panic THEN {Panic(db)}
           ELSE IF ~loaded.ok THEN {Err(db, loaded.err, <<>>)}
           ELSE MoveIn(db, r, loaded.game, hostOk) :
           loaded \in DbGame(db, r.id)}

\* Advance::Resign without the comparison of the hashes
ResignInAnyHash(db, r, game, hostOk) ==
    LET color == PlayerColor(game, r.sender)
        opponent == Player(game, Not(color))
    IN IF Outcome(game).kind # "None" THEN Err(db, "game is already over", <<>>)
       ELSE IF color = "none" THEN Err(db, "player is not in this game", <<>>)
       ELSE AppEndGame(db, game,
                       [kind |-> "Resignation", winner |-> opponent, loser |-> r.sender],
                       hostOk)

\* handle_advance, Advance::Resign, after Db::game has returned `game`
ResignIn(db, r, game, hostOk) ==
    LET color == PlayerColor(game, r.sender)
        opponent == Player(game, Not(color))
    IN IF game.hash # r.hash THEN Err(db, "game is not in the expected state to resign", <<>>)
       ELSE IF Outcome(game).kind # "None" THEN Err(db, "game is already over", <<>>)
       ELSE IF color = "none" THEN Err(db, "player is not in this game", <<>>)
       ELSE AppEndGame(db, game,
                       [kind |-> "Resignation", winner |-> opponent, loser |-> r.sender],
                       hostOk)

\* handle_advance, Advance::Resign
HandleResign(db, r, hostOk) ==
    {IF loaded.panic THEN Panic(db)
     ELSE IF ~loaded.ok THEN Err(db, loaded.err, <<>>)
     ELSE ResignIn(db, r, loaded.game, hostOk) :
     loaded \in DbGame(db, r.id)}

\* App::handle_advance
HandleAdvance(db, r, hostOk) ==
    CASE r.type = "challenge" -> HandleChallenge(db, r)
      [] r.type = "move" -> HandleMove(db, r, hostOk)
      [] r.type = "resign" -> HandleResign(db, r, hostOk)
      [] OTHER -> {Err(db, "invalid request", <<>>)}

\* the addresses that parse as Address
Addresses == {"alice", "bob", "carol"}

\* str::parse for an address segment
ParseAddress(segment) == [ok |-> segment \in Addresses, value |-> segment]

\* str::parse for a GameId or u16 segment
ParseNumber(segment) ==
    CASE segment = "0" -> [ok |-> TRUE, value |-> 0]
      [] segment = "1" -> [ok |-> TRUE, value |-> 1]
      [] segment = "2" -> [ok |-> TRUE, value |-> 2]
      [] segment = "3" -> [ok |-> TRUE, value |-> 3]
      [] segment = "4" -> [ok |-> TRUE, value |-> 4]
      [] segment = "2147483647" -> [ok |-> TRUE, value |-> I32Max]
      [] OTHER -> [ok |-> FALSE, value |-> 0]

\* the reports of handle_inspect, posted to /report
GamesReport(rows) == [post |-> "report", type |-> "games", games |-> rows]
MovesReport(texts) == [post |-> "report", type |-> "moves", moves |-> texts]
UserStatsReport(stats) == [post |-> "report", type |-> "userstats", stats |-> stats]

\* App::report of `report`, the handler ending with it
Reported(db, report, hostOk) ==
    IF hostOk THEN Ok(db, <<report>>) ELSE Err(db, "failed to post", <<>>)

\* handle_inspect, "games"
InspectGames(db, path, hostOk) ==
    LET address == ParseAddress(path[2])
        after == ParseNumber(path[3])
    IN IF Len(path) < 2 THEN {Err(db, "missing parameter address", <<>>)}
       ELSE IF ~address.ok THEN {Err(db, "invalid address", <<>>)}
       ELSE IF Len(path) >= 3 /\ ~after.ok THEN {Err(db, "invalid id", <<>>)}
       ELSE {IF found.panic THEN Panic(db)
             ELSE Reported(db, GamesReport(found.rows), hostOk) :
             found \in DbGames(db, address.value,
                               IF Len(path) >= 3 THEN After(after.value) ELSE NoAfter)}

\* "moves" with the half move to start from optional: all moves without it
InspectMovesFromStart(db, path, hostOk) ==
    LET id == ParseNumber(path[2])
        from == IF Len(path) >= 3 THEN ParseNumber(path[3]) ELSE [ok |-> TRUE, value |-> 0]
    IN IF Len(path) < 2 THEN {Err(db, "missing parameter game ID", <<>>)}
       ELSE IF ~id.ok THEN {Err(db, "invalid id", <<>>)}
       ELSE IF ~from.ok \/ from.value > U16Max THEN {Err(db, "invalid from", <<>>)}
       ELSE {Reported(db, MovesReport(SelectSans(db, id.value, from.value)), hostOk)}

\* handle_inspect, "moves"
InspectMoves(db, path, hostOk) ==
    LET id == ParseNumber(path[2])
        from == ParseNumber(path[3])
    IN IF Len(path) < 2 THEN {Err(db, "missing parameter game ID", <<>>)}
       ELSE IF ~id.ok THEN {Err(db, "invalid id", <<>>)}
       ELSE IF Len(path) < 3 THEN {Err(db, "missing parameter from", <<>>)}
       ELSE IF ~from.ok \/ from.value > U16Max THEN {Err(db, "invalid from", <<>>)}
       ELSE {Reported(db, MovesReport(SelectSans(db, id.value, from.value)), hostOk)}

\* handle_inspect, "stats"
InspectStats(db, path, hostOk) ==
    LET address == ParseAddress(path[2])
        found == DbUserStats(db, address.value)
    IN IF Len(path) < 2 THEN {Err(db, "missing parameter address", <<>>)}
       ELSE IF ~address.ok THEN {Err(db, "invalid address", <<>>)}
       ELSE IF ~found.ok THEN {Err(db, "unknown user", <<>>)}
       ELSE {Reported(db, UserStatsReport(found.stats), hostOk)}

\* handle_inspect with "stats" creating the row it does not find
HandleInspectCreatesUser(db, path, hostOk) ==
    IF path # <<>> /\ path[1] = "stats" /\ Len(path) >= 2
    THEN {Reported([db EXCEPT !.users = EnsureUser(@, path[2])],
                   UserStatsReport(NewUser), hostOk)}
    ELSE {Err(db, "unsupported inspect request", <<>>)}

\* App::handle_inspect; `path` is the payload split at '/'
HandleInspect(db, path, hostOk) ==
    IF path = <<>> THEN {Err(db, "invalid request", <<>>)}
    ELSE CASE path[1] = "games" -> InspectGames(db, path, hostOk)
           [] path[1] = "moves" -> InspectMoves(db, path, hostOk)
           [] path[1] = "stats" -> InspectStats(db, path, hostOk)
           [] OTHER -> {Err(db, "unsupported inspect request", <<>>)}

----------------------------------------------------------------------------
(* The rollup specification: the finish loop over advance inputs *)

Text(body) == [body |-> body, tail |-> ""]
NoText == Text("")
NoHash == InitialHash(0, "-", "-")

NoRequest ==
    [type |-> "none", sender |-> "-", opponent |-> "-", first_move |-> <<>>,
     id |-> 0, hash |-> NoHash, san |-> NoText, path |-> <<>>]

\* the engine specification's variables while no call has been made
NoCall ==
    [op |-> "none", player |-> "-", expected |-> NoHash, san |-> NoSan,
     ok |-> FALSE, panic |-> FALSE, err |-> "", move |-> NoMoveMade]

\* the SAN texts inputs carry: every SAN of the rules and one that is no SAN
MoveTexts == {Text(body) : body \in SanSyntax \cup {"zz"}}

\* first moves: none, a legal one, an illegal one, one that is no SAN
FirstMoves == {<<>>} \cup {<<Text(body)>> : body \in {"Nf3", "Qh5", "zz"}}

\* the hashes a client may send: each live game's current and first hash,
\* and one that is no game's
KnownHashes ==
    {NoHash}
        \cup {InitialHash(id, games[id].white, games[id].black) : id \in DOMAIN games}
        \cup UNION {{loaded.game.hash : loaded \in DbGame(Store, id)} : id \in DOMAIN games}

\* the ids inputs name: every id assigned so far whose game has ended or
\* has room for a move
NamedIds ==
    {id \in 1..seq : id \notin DOMAIN games \/ Cardinality(MoveRows(Store, id)) < MaxPly}

\* the hashes a game that has ended may have had last: its moves replayed
\* for each pair of players
EndedHashes(id) ==
    LET texts == SelectSans(Store, id, 0)
        sans == [i \in 1..Len(texts) |-> ParseSan(texts[i])]
    IN UNION {{replayed.game.hash : replayed \in FromMoves(id, white, black, sans)} :
              white \in Players, black \in Players}

\* the hashes sent with the id of a game
HashesFor(id) == IF id \in DOMAIN games THEN KnownHashes ELSE {NoHash} \cup EndedHashes(id)

\* the SAN texts sent with the id of a game: for one that has ended, a
\* SAN and a text that is none
TextsFor(id) == IF id \in DOMAIN games THEN MoveTexts ELSE {Text("Nf3"), Text("zz")}

Malformed == {[NoRequest EXCEPT !.type = "malformed"]}

Challenges ==
    IF seq < MaxGames
    THEN {[NoRequest EXCEPT !.type = "challenge", !.sender = s, !.opponent = o, !.first_move = f] :
            s \in Players, o \in Players, f \in FirstMoves}
    ELSE {}

Moves ==
    UNION {{[NoRequest EXCEPT !.type = "move", !.sender = s, !.id = id, !.hash = h, !.san = t] :
              s \in Players, h \in HashesFor(id), t \in TextsFor(id)} :
           id \in NamedIds}

Resigns ==
    UNION {{[NoRequest EXCEPT !.type = "resign", !.sender = s, !.id = id, !.hash = h] :
              s \in Players, h \in HashesFor(id)} :
           id \in NamedIds}

\* Db::memory, or a new file: the tables after the migrations
EmptyStore == [users |-> <<>>, games |-> <<>>, moves |-> {}, seq |-> 0]

\* the other specifications' variables while theirs is not the one running
IdleEngine == g = New(0, "-", "-") /\ call = NoCall /\ trail = <<>>
IdleTx == tx = NoTx
\* the mutex is held by no task
NoTask == -1
IdleDaemon == lock = NoTask /\ tasks = <<>> /\ local = EmptyStore

InitRollup ==
    /\ users = <<>>
    /\ games = <<>>
    /\ moves = {}
    /\ seq = 0
    /\ pc = "finish"
    /\ status = "accept"
    /\ req = NoRequest
    /\ err = ""
    /\ outbox = <<>>
    /\ accepted = <<>>

Counted(bag, e) == IF e \in DOMAIN bag THEN [bag EXCEPT ![e] = @ + 1] ELSE bag @@ (e :> 1)

\* the inspect payloads: each kind of query well formed and not, the
\* largest id as `after`, an unknown user, an unsupported query, a payload
\* that is not a path
InspectPaths ==
    {<<"games">>, <<"games", "alice">>, <<"games", "bob", "1">>, <<"games", "alice", "x">>,
     <<"games", "alice", "2147483647">>,
     <<"moves", "1">>, <<"moves", "1", "0">>, <<"moves", "1", "2">>, <<"moves", "2", "1">>,
     <<"stats", "alice">>, <<"stats", "carol">>, <<"stats">>,
     <<"foo">>, <<>>}

Inspects == {[NoRequest EXCEPT !.type = "inspect", !.path = path] : path \in InspectPaths}

\* a request whose request_type is neither advance_state nor inspect_state
Unknowns == {[NoRequest EXCEPT !.type = "unknown"]}

\* main with Accept whatever the handler returned
StatusAlwaysAccept(o) == "accept"

\* main: the status a handler's result sets
StatusAfter(o) == IF o.ok THEN "accept" ELSE "reject"

\* the request `r` is delivered and its handler ends as `o`
Handled(r, o) ==
    /\ users' = o.db.users
    /\ games' = o.db.games
    /\ moves' = o.db.moves
    /\ seq' = o.db.seq
    /\ pc' = IF o.panic THEN "aborted" ELSE "finish"
    /\ status' = IF o.panic THEN status ELSE StatusAfter(o)
    /\ req' = r
    /\ err' = o.err
    /\ outbox' = o.posted
    /\ accepted' = IF r.type = "move" /\ o.ok THEN Counted(accepted, <<r.id, r.hash>>)
                   ELSE accepted
    /\ UNCHANGED <<engineVars, tx, daemonVars>>

\* main: the response to /finish is an advance_state request
Advance ==
    /\ pc = "request"
    /\ \E r \in Malformed \cup Challenges \cup Moves \cup Resigns, hostOk \in BOOLEAN :
         \E o \in HandleAdvance(Store, r, hostOk) :
            Handled(r, o)

\* main: the response to /finish is an inspect_state request
Inspect ==
    /\ pc = "request"
    /\ \E r \in Inspects, hostOk \in BOOLEAN :
         \E o \in HandleInspect(Store, r.path, hostOk) :
            Handled(r, o)

\* main: the response to /finish has another request_type
Unknown ==
    /\ pc = "request"
    /\ \E r \in Unknowns :
         Handled(r, Err(Store, "unknown request type", <<>>))

\* main: POST /finish with the status is answered 202, no request pending
Poll ==
    /\ pc = "finish"
    /\ pc' = "finish"
    /\ req' = NoRequest
    /\ err' = ""
    /\ outbox' = <<>>
    /\ UNCHANGED <<storeVars, status, accepted, engineVars, tx, daemonVars>>

\* main: POST /finish with the status; the next iteration begins
Finish ==
    /\ pc = "finish"
    /\ pc' = "request"
    /\ req' = NoRequest
    /\ err' = ""
    /\ outbox' = <<>>
    /\ UNCHANGED <<storeVars, status, accepted, engineVars, tx, daemonVars>>

Init ==
    /\ InitRollup
    /\ IdleEngine
    /\ IdleTx
    /\ IdleDaemon

Next == Advance \/ Inspect \/ Unknown \/ Poll \/ Finish

Spec == Init /\ [][Next]_vars

----------------------------------------------------------------------------
(* The engine specification: calls on one Game *)

\* stands for the notations of a long game's first U16Max - 1 plies
Elided == [body |-> "...", tail |-> ""]

\* A game one ply short of the counter's last value.  The rules library sets
\* no limit on the length of a game, so from_moves builds it from a sequence
\* of U16Max - 1 legal moves.
LateGame(white, black) ==
    [New(1, white, black) EXCEPT
        !.position = [turn |-> White, st |-> "quiet", dev |-> 2],
        !.half_move = U16Max - 1,
        !.hash = ExtendHash(@, Elided)]

EngineGames ==
    {New(1, w, b) : w \in Players, b \in Players}
        \cup {LateGame(w, b) : w \in Players, b \in Players}

\* the hashes a caller may hold: the current one, the game's first, another game's
EngineHashes ==
    {g.hash, InitialHash(g.id, g.white, g.black), InitialHash(g.id + 1, g.white, g.black)}

InitEngine ==
    /\ g \in EngineGames
    /\ call = NoCall
    /\ trail = <<>>
    /\ InitRollup
    /\ IdleTx
    /\ IdleDaemon

Returned(op, player, expected, san, r) ==
    /\ g' = r.game
    /\ call' = [op |-> op, player |-> player, expected |-> expected, san |-> san,
                ok |-> r.ok, panic |-> r.panic, err |-> r.err, move |-> r.move]
    /\ trail' = IF r.ok
                THEN Append(trail, [san |-> san, text |-> SanPlusToString(r.move.san),
                                    half_move |-> r.move.half_move])
                ELSE trail
    /\ UNCHANGED <<rollupVars, tx, daemonVars>>

\* a panic ends the process: no call follows it
EngineLive == ~call.panic /\ Len(trail) < MaxEnginePly

EnginePlay ==
    /\ EngineLive
    /\ \E player \in Senders, expected \in EngineHashes, san \in SanSyntax :
         \E r \in Play(g, player, expected, san) :
            Returned("play", player, expected, san, r)

EnginePlayNextMove ==
    /\ EngineLive
    /\ \E san \in SanSyntax :
         \E r \in PlayNextMove(g, san) :
            Returned("play_next_move", "-", g.hash, san, r)

NextEngine == EnginePlay \/ EnginePlayNextMove

SpecEngine == InitEngine /\ [][NextEngine]_vars

----------------------------------------------------------------------------
(* The store specification: new_game and end_game on one connection *)

\* the outcomes App::end_game passes for a game between `white` and `black`
StoreOutcomes(white, black) ==
    {[kind |-> "Checkmate", winner |-> white, loser |-> black],
     [kind |-> "Resignation", winner |-> black, loser |-> white],
     [kind |-> "Stalemate", winner |-> "-", loser |-> "-"]}

InitStore ==
    /\ InitRollup
    /\ IdleEngine
    /\ IdleTx
    /\ IdleDaemon

\* the store's variables become the tables of `db`
Stored(db) ==
    /\ users' = db.users
    /\ games' = db.games
    /\ moves' = db.moves
    /\ seq' = db.seq

StoreFrame == UNCHANGED <<pc, status, req, err, outbox, accepted, engineVars, daemonVars>>

\* the frame of a step that begins the handling of an input
StoreInputFrame == UNCHANGED <<pc, status, req, err, accepted, engineVars, daemonVars>>

\* Db::new_game, called for a Challenge: nothing has been posted
StoreNewGame ==
    /\ ~tx.open
    /\ seq < MaxStoreGames
    /\ \E white \in Players, black \in Players :
          Stored(NewGame(Store, white, black).db)
    /\ outbox' = <<>>
    /\ UNCHANGED tx
    /\ StoreInputFrame

\* App::end_game has posted the notice or report and calls Db::end_game:
\* the transaction begins
StoreBegin ==
    /\ ~tx.open
    /\ \E id \in DOMAIN games :
          \E outcome \in StoreOutcomes(games[id].white, games[id].black) :
             LET game == New(id, games[id].white, games[id].black)
             IN /\ outbox' = <<Artefact(Store, game, outcome)>>
                /\ tx' = Begin(Store, game, outcome)
    /\ UNCHANGED storeVars
    /\ StoreInputFrame

\* the next statement of Db::end_game succeeds
StoreStatement ==
    /\ tx.open
    /\ tx.step <= LastStatement
    /\ Executable(tx)
    /\ tx' = Statement(tx)
    /\ UNCHANGED storeVars
    /\ StoreFrame

\* the next statement, or the commit, fails: end_game returns the error
StoreFail ==
    /\ tx.open
    /\ Stored(Dropped(Store, tx))
    /\ tx' = [NoTx EXCEPT !.result = "err"]
    /\ StoreFrame

\* tx.commit() succeeds
StoreCommit ==
    /\ tx.open
    /\ tx.step = LastStatement + 1
    /\ Stored(Committed(Store, tx))
    /\ tx' = [NoTx EXCEPT !.result = "ok"]
    /\ StoreFrame

NextStore == StoreNewGame \/ StoreBegin \/ StoreStatement \/ StoreFail \/ StoreCommit

SpecStore == InitStore /\ [][NextStore]_vars

----------------------------------------------------------------------------
(* The daemon specification: client/src/main.rs over indexer/src/inspect.rs *)

\* opt.address
DaemonAddress == "alice"

\* format!("{n}") for an id or a half move
NumberText(n) ==
    CASE n = 0 -> "0" [] n = 1 -> "1" [] n = 2 -> "2" [] n = 3 -> "3" [] n = 4 -> "4"
      [] n = I32Max -> "2147483647"
      [] OTHER -> "?"

\* InspectIndexer::inspect: an error (transport, status, a reports array
\* that is no singleton), or the one report the application posted
IndexerInspect(path) ==
    {[ok |-> FALSE, report |-> GamesReport(<<>>)]}
        \cup {IF o.ok THEN [ok |-> TRUE, report |-> o.posted[1]]
              ELSE [ok |-> FALSE, report |-> GamesReport(<<>>)] :
              o \in HandleInspect(Store, path, TRUE)}

\* the move stream's cursor left where it was after a poll
AdvanceFromStays(from, n) == from

\* InspectIndexer::moves: from + (moves.len() as u16)
AdvanceFrom(from, n) == from + n

\* one poll of InspectIndexer::moves: the cursor and the SANs it yields
MovesPolled(id, from) ==
    {LET texts == IF r.ok /\ r.report.type = "moves" THEN r.report.moves ELSE <<>>
         sans == [i \in 1..Len(texts) |-> ParseSan(texts[i])]
     IN IF \E i \in 1..Len(sans) : sans[i] = NoSan
        THEN [from |-> from, items |-> <<>>]
        ELSE [from |-> AdvanceFrom(from, Len(sans)), items |-> sans] :
     r \in IndexerInspect(<<"moves", NumberText(id), NumberText(from)>>)}

\* the game stream's cursor left where it was after a poll
AdvanceAfterStays(after, rows) == after

\* InspectIndexer::games_with_user:
\* games.last().map(|game| Some(game.id)).unwrap_or(after)
AdvanceAfter(after, rows) ==
    IF rows = <<>> THEN after ELSE After(rows[Len(rows)].id)

\* a report of another kind than the one the stream asked for
UnexpectedReport == [ok |-> TRUE, report |-> MovesReport(<<>>)]

\* one poll of InspectIndexer::games_with_user: the cursor and the games
GamesPolled(address, after) ==
    {LET rows == IF r.ok /\ r.report.type = "games" THEN r.report.games ELSE <<>>
     IN [after |-> IF r.ok /\ r.report.type = "games" THEN AdvanceAfter(after, rows)
                   ELSE after,
         items |-> rows] :
     r \in IndexerInspect(IF after.some THEN <<"games", address, NumberText(after.id)>>
                          ELSE <<"games", address>>) \cup {UnexpectedReport}}

\* Db::max_game
DbMaxGame(db) ==
    IF DOMAIN db.games = {} THEN NoAfter
    ELSE After(CHOOSE id \in DOMAIN db.games : \A other \in DOMAIN db.games : other <= id)

\* Db::insert_game: the id is the key of the game table
InsertGame(db, id, white, black) ==
    IF id \in DOMAIN db.games THEN [ok |-> FALSE, db |-> db]
    ELSE [ok |-> TRUE,
          db |-> [db EXCEPT !.games = @ @@ (id :> [white |-> white, black |-> black]),
                            !.seq = IF id > @ THEN id ELSE @]]

\* the task of listen_games, and a task of listen_moves for game `id`
GamesTask == 0
ListenGames ==
    [pc |-> "max", id |-> 0, game |-> NoGame, from |-> 0, after |-> NoAfter,
     buf |-> <<>>, m |-> NoMoveMade]
ListenMoves(id) == [ListenGames EXCEPT !.pc = "load", !.id = id]

\* the positions at which a task sleeps out a back-off
Sleeping == {"max_sleep", "load_sleep", "record_sleep", "insert_sleep"}

\* where a task goes on when its back-off is over
Retry(position) ==
    CASE position = "max_sleep" -> "max"
      [] position = "load_sleep" -> "load"
      [] position = "record_sleep" -> "record"
      [] OTHER -> "next"

\* main: a listener per game of the local store, and the listener of games
Spawned(db) ==
    LET rows == (CHOOSE found \in DbGames(db, DaemonAddress, NoAfter) : TRUE).rows
    IN [t \in {GamesTask} \cup {rows[i].id : i \in 1..Len(rows)} |->
          IF t = GamesTask THEN ListenGames ELSE ListenMoves(t)]

\* the rollup's inputs while the daemon runs
DaemonChallenges ==
    IF seq < MaxDaemonGames
    THEN {[NoRequest EXCEPT !.type = "challenge", !.sender = "alice", !.opponent = "bob",
                            !.first_move = <<Text("Nf3")>>],
          [NoRequest EXCEPT !.type = "challenge", !.sender = "bob", !.opponent = "alice"],
          [NoRequest EXCEPT !.type = "challenge", !.sender = "bob", !.opponent = "bob"]}
    ELSE {}

DaemonMoves ==
    UNION {{[NoRequest EXCEPT !.type = "move", !.sender = s, !.id = id,
                              !.hash = loaded.game.hash, !.san = Text(body)] :
              s \in Players, body \in {"Nf3", "Qh5"}, loaded \in DbGame(Store, id)} :
           id \in {id \in DOMAIN games : Cardinality(MoveRows(Store, id)) < MaxDaemonPly}}

DaemonResigns ==
    UNION {{[NoRequest EXCEPT !.type = "resign", !.sender = "bob", !.id = id,
                              !.hash = loaded.game.hash] :
              loaded \in DbGame(Store, id)} :
           id \in DOMAIN games}

InitDaemon ==
    /\ InitRollup
    /\ IdleEngine
    /\ IdleTx
    /\ lock = NoTask
    /\ local = EmptyStore
    /\ tasks = Spawned(EmptyStore)

DaemonFrame == UNCHANGED <<pc, status, req, err, outbox, accepted, engineVars, tx>>

\* the rollup handles an advance input that changes its store
RollupAdvances ==
    /\ \E r \in DaemonChallenges \cup DaemonMoves \cup DaemonResigns :
          \E o \in HandleAdvance(Store, r, TRUE) :
             /\ ~o.panic
             /\ o.db # Store
             /\ Stored(o.db)
    /\ UNCHANGED daemonVars
    /\ DaemonFrame

\* task `t` takes the mutex for a store call that returns Ok (and releases
\* it) or Err (and keeps it through the back-off)
Locked(t, ok, position) ==
    /\ lock = NoTask
    /\ lock' = IF ok THEN NoTask ELSE t
    /\ \/ ok
       \/ tasks' = [tasks EXCEPT ![t].pc = position]

\* listen_games: db.lock().await.max_game()
MaxGame ==
    /\ tasks[GamesTask].pc = "max"
    /\ \E fails \in BOOLEAN :
          /\ Locked(GamesTask, ~fails, "max_sleep")
          /\ ~fails =>
                tasks' = [tasks EXCEPT ![GamesTask].pc = "next",
                                       ![GamesTask].after = DbMaxGame(local)]
    /\ UNCHANGED <<local, storeVars>>
    /\ DaemonFrame

\* listen_games: games.next() polls the indexer
PollGames ==
    /\ tasks[GamesTask].pc = "next" /\ tasks[GamesTask].buf = <<>>
    /\ \E polled \in GamesPolled(DaemonAddress, tasks[GamesTask].after) :
          tasks' = [tasks EXCEPT ![GamesTask].after = polled.after,
                                 ![GamesTask].buf = polled.items]
    /\ UNCHANGED <<lock, local, storeVars>>
    /\ DaemonFrame

\* listen_games: db.lock().await.insert_game(..), then spawn(listen_moves)
InsertAndSpawn ==
    /\ tasks[GamesTask].pc = "next" /\ tasks[GamesTask].buf # <<>>
    /\ LET game == Head(tasks[GamesTask].buf)
           inserted == InsertGame(local, game.id, game.white, game.black)
       IN \E fails \in BOOLEAN :
            LET ok == ~fails /\ inserted.ok
            IN /\ Locked(GamesTask, ok, "insert_sleep")
               /\ local' = IF ok THEN inserted.db ELSE local
               /\ ok => tasks' = [t \in DOMAIN tasks \cup {game.id} |->
                                    IF t = game.id THEN ListenMoves(game.id)
                                    ELSE IF t = GamesTask
                                         THEN [tasks[t] EXCEPT !.buf = Tail(@)]
                                         ELSE tasks[t]]
    /\ UNCHANGED storeVars
    /\ DaemonFrame

\* listen_moves: db.lock().await.game(id)
LoadGame ==
    \E t \in DOMAIN tasks :
        /\ tasks[t].pc = "load"
        /\ \E fails \in BOOLEAN, loaded \in DbGame(local, t) :
              LET ok == ~fails /\ loaded.ok
              IN /\ Locked(t, ok, "load_sleep")
                 /\ ok => tasks' = [tasks EXCEPT ![t].pc = "next",
                                                 ![t].game = loaded.game,
                                                 ![t].from = loaded.game.half_move + 1]
        /\ UNCHANGED <<local, storeVars>>
        /\ DaemonFrame

\* listen_moves: moves.next() polls the indexer
PollMoves ==
    \E t \in DOMAIN tasks \ {GamesTask} :
        /\ tasks[t].pc = "next" /\ tasks[t].buf = <<>>
        /\ \E polled \in MovesPolled(t, tasks[t].from) :
              tasks' = [tasks EXCEPT ![t].from = polled.from, ![t].buf = polled.items]
        /\ UNCHANGED <<lock, local, storeVars>>
        /\ DaemonFrame

\* listen_moves: game.play_next_move(san) on the next SAN of the stream
PlayNext ==
    \E t \in DOMAIN tasks \ {GamesTask} :
        /\ tasks[t].pc = "next" /\ tasks[t].buf # <<>>
        /\ \E played \in PlayNextMove(tasks[t].game, Head(tasks[t].buf)) :
              tasks' = [tasks EXCEPT ![t].pc = IF played.ok THEN "record" ELSE "done",
                                     ![t].game = played.game,
                                     ![t].m = played.move,
                                     ![t].buf = Tail(@)]
        /\ UNCHANGED <<lock, local, storeVars>>
        /\ DaemonFrame

\* listen_moves: db.lock().await, then db.record_move(id, m)
RecordPlayed ==
    \E t \in DOMAIN tasks \ {GamesTask} :
        /\ tasks[t].pc = "record"
        /\ LET recorded == RecordMove(local, t, tasks[t].m)
           IN \E fails \in BOOLEAN :
                LET ok == ~fails /\ recorded.ok
                IN /\ Locked(t, ok, "record_sleep")
                   /\ local' = IF ok THEN recorded.db ELSE local
                   /\ ok => tasks' = [tasks EXCEPT ![t].pc = "next"]
        /\ UNCHANGED storeVars
        /\ DaemonFrame

\* sleep(5 s) is over: the guard goes out of scope, the task tries again
Wake ==
    \E t \in DOMAIN tasks :
        /\ tasks[t].pc \in Sleeping
        /\ tasks' = [tasks EXCEPT ![t].pc = Retry(@)]
        /\ lock' = IF lock = t THEN NoTask ELSE lock
        /\ UNCHANGED <<local, storeVars>>
        /\ DaemonFrame

\* the process is killed and started again on the same local store
Restart ==
    /\ tasks' = Spawned(local)
    /\ tasks' # tasks
    /\ lock' = NoTask
    /\ UNCHANGED <<local, storeVars>>
    /\ DaemonFrame

NextDaemon ==
    \/ RollupAdvances
    \/ MaxGame
    \/ PollGames
    \/ InsertAndSpawn
    \/ LoadGame
    \/ PollMoves
    \/ PlayNext
    \/ RecordPlayed
    \/ Wake
    \/ Restart

SpecDaemon == InitDaemon /\ [][NextDaemon]_vars

\* the steps of listen_games that get somewhere: max_game returns Ok, a
\* poll is answered with games, insert_game returns Ok
MaxGameOk == MaxGame /\ tasks'[GamesTask].pc = "next"
PollGamesYields == PollGames /\ tasks'[GamesTask].buf # <<>>
InsertGameOk == InsertAndSpawn /\ local' # local

\* the process is killed finitely often, the runtime wakes every sleeping
\* task, and a call that can succeed again and again does succeed in the end
DaemonFairness ==
    /\ <>[][~Restart]_vars
    /\ WF_vars(Wake)
    /\ SF_vars(MaxGameOk)
    /\ SF_vars(PollGamesYields)
    /\ SF_vars(InsertGameOk)

SpecDaemonLive == InitDaemon /\ [][NextDaemon]_vars /\ DaemonFairness

----------------------------------------------------------------------------
(* Properties of the engine, checked under SpecEngine *)

\* the game was built by Game::new and the calls of this behaviour
FromNew == Len(g.hash.chain) = Len(trail)

TrailSans == [i \in 1..Len(trail) |-> trail[i].san]
TrailTexts == [i \in 1..Len(trail) |-> trail[i].text]

\* C2 (state matching): a call of Game::play that succeeds was made with the
\* game's hash as expected state and by the player whose colour is to move.
StateMatching ==
    [][(call'.op = "play" /\ call'.ok) =>
          /\ call'.expected = g.hash
          /\ call'.player = Player(g, Turn(g))]_vars

\* C2 witness: black, a different address from white, has played through play.
StateMatchingWitness ==
    /\ call.op = "play" /\ call.ok
    /\ g.white # g.black /\ call.player = g.black

\* C3 (order of the checks): play reports the first precondition that fails,
\* in the order player, turn, state; the legality of the move is examined only
\* when all three hold; a play that returns an error leaves the game as it was.
PlayCheckOrder ==
    [][(call'.op = "play" /\ ~call'.panic) =>
          LET color == PlayerColor(g, call'.player)
              member == color # "none"
              turn == member /\ Turn(g) = color
              state == call'.expected = g.hash
          IN /\ ~member => (~call'.ok /\ call'.err = "invalid player")
             /\ (member /\ ~turn) => (~call'.ok /\ call'.err = "not your turn")
             /\ (turn /\ ~state) => (~call'.ok /\ call'.err = "state mismatch")
             /\ (turn /\ state) =>
                  (call'.ok <=> ToMove(call'.san, g.position) # NoMove)
             /\ (turn /\ state /\ ~call'.ok) => call'.err = "illegal move"
             /\ ~call'.ok => g' = g]_vars

\* C3 witness: the player to move gave a SAN that is legal, with another
\* hash than the game's, and got the state mismatch.
PlayCheckOrderWitness ==
    /\ call.op = "play" /\ call.err = "state mismatch"
    /\ call.player = Player(g, Turn(g))
    /\ ToMove(call.san, g.position) # NoMove
    /\ g.half_move > 0

\* C4 (hash-chain purity): a game built by Game::new and moved by
\* play / play_next_move has the hash and the half_move from_moves gives for
\* the same SAN sequence, and its hash is the initial hash of (id, white,
\* black) extended by the notation of each move in turn.
HashChainPurity ==
    FromNew =>
        /\ \A r \in FromMoves(g.id, g.white, g.black, TrailSans) :
              r.ok /\ r.game.hash = g.hash /\ r.game.half_move = g.half_move
        /\ g.hash = [InitialHash(g.id, g.white, g.black) EXCEPT !.chain = TrailTexts]
        /\ g.half_move = Len(trail)

\* C4 witness: a game from Game::new, between two addresses, that ended in
\* mate after as many moves as the bound allows.
HashChainPurityWitness ==
    /\ FromNew /\ Len(trail) = MaxEnginePly
    /\ g.white # g.black
    /\ IsCheckmate(g.position)

\* C5 (ply monotonicity), as claimed: a successful move adds one to
\* half_move and returns that value; an unsuccessful one leaves half_move.
PlyMonotonic ==
    [][/\ call'.ok => (g'.half_move = g.half_move + 1 /\ call'.move.half_move = g'.half_move)
       /\ ~call'.ok => g'.half_move = g.half_move]_engineVars

----------------------------------------------------------------------------
(* Properties of the rollup application, checked under Spec *)

\* the step is one run of handle_advance
Handling == pc = "request" /\ pc' = "finish"

\* the game `id` as Db::game loads it (a replay within MaxPly has one result)
Loaded(db, id) == CHOOSE loaded \in DbGame(db, id) : TRUE

\* a Move input for game `id`
MoveRequest(sender, id, hash, text) ==
    [NoRequest EXCEPT !.type = "move", !.sender = sender, !.id = id, !.hash = hash, !.san = text]

\* C1 (at-most-once play): no <<game, hash>> comes in two accepted Move
\* inputs, and a Move input whose hash is not the current hash of its game
\* is rejected and adds no row to the move table.
AtMostOncePlay ==
    [][Handling =>
          /\ \A p \in DOMAIN accepted' : accepted'[p] <= 1
          /\ (/\ req'.type = "move"
              /\ \A loaded \in DbGame(Store, req'.id) :
                    ~loaded.ok \/ loaded.game.hash # req'.hash)
                => (status' = "reject" /\ moves' = moves)]_vars

\* C1 witness: a Move is rejected for a state mismatch, and it carries the
\* hash an accepted Move of the same game carried before.
AtMostOncePlayWitness ==
    /\ pc = "finish" /\ req.type = "move" /\ status = "reject"
    /\ err = "state mismatch"
    /\ <<req.id, req.hash>> \in DOMAIN accepted

\* C6 (reject means no effect), as claimed: an advance input that ends in
\* Reject leaves the user, game and move tables as they were.
RejectNoEffect ==
    [][(Handling /\ status' = "reject") =>
          (users' = users /\ games' = games /\ moves' = moves)]_vars

\* C7, as claimed: a rejected Challenge with a first move leaves no game
\* row, no user row and no move row behind.
FailedChallengeLeavesNothing ==
    [][(Handling /\ req'.type = "challenge" /\ req'.first_move # <<>> /\ status' = "reject") =>
          (DOMAIN games' = DOMAIN games /\ DOMAIN users' = DOMAIN users
             /\ MoveRows(Store', seq') = {})]_vars

\* the first Move of game `id` by `sender`, as handle_advance would end it
FirstMoveBy(sender, id, hash, text) ==
    UNION {HandleAdvance(Store, MoveRequest(sender, id, hash, text), hostOk) :
           hostOk \in BOOLEAN}

\* what C8 says of a Challenge with a first move
ChallengeWithFirstMove ==
    /\ seq \in DOMAIN games
    /\ games[seq] = [white |-> req.sender, black |-> req.opponent]
    /\ status = "accept" =>
          \E row \in moves : /\ MoveRows(Store, seq) = {row}
                             /\ row.half_move = 1

\* what C8 says of a Challenge without one, but for the challenger's Move
ChallengeWithoutFirstMove ==
    /\ status = "accept"
    /\ seq \in DOMAIN games
    /\ games[seq] = [white |-> req.opponent, black |-> req.sender]
    /\ MoveRows(Store, seq) = {}
    /\ \A text \in MoveTexts :
          ToMove(ParseSan(text), StartPos) # NoMove =>
             \A o \in FirstMoveBy(req.opponent, seq,
                                  InitialHash(seq, req.opponent, req.sender), text) : o.ok

\* every Move the challenger may send for the new game is rejected
ChallengerRejected ==
    \A text \in MoveTexts, hash \in KnownHashes :
        \A o \in FirstMoveBy(req.sender, seq, hash, text) : ~o.ok

\* C8 (side assignment), as claimed: after a Challenge with a first move the
\* new game has white = sender, black = opponent and, if accepted, one move
\* row, at half_move 1; after one without, white = opponent, black = sender,
\* there is no move row, the opponent's legal first Move with the initial
\* hash is accepted and a Move from the challenger is rejected.
SideAssignmentClaimed ==
    (pc = "finish" /\ req.type = "challenge") =>
        IF req.first_move # <<>> THEN ChallengeWithFirstMove
        ELSE ChallengeWithoutFirstMove /\ ChallengerRejected

\* C8 amended: the same, the challenger's Move being rejected when the
\* challenger is not the opponent as well.
SideAssignment ==
    (pc = "finish" /\ req.type = "challenge") =>
        IF req.first_move # <<>> THEN ChallengeWithFirstMove
        ELSE /\ ChallengeWithoutFirstMove
             /\ req.sender # req.opponent => ChallengerRejected

\* C8 witness: both kinds of Challenge between two addresses were accepted,
\* the second game being the one without a first move.
SideAssignmentWitness ==
    /\ pc = "finish" /\ req.type = "challenge" /\ status = "accept"
    /\ req.first_move = <<>> /\ req.sender # req.opponent
    /\ seq = 2 /\ 1 \in DOMAIN games
    /\ \E row \in moves : row.game = 1

\* C9, as claimed: once an advance input has been handled, every row of the
\* game table replays to a position without an outcome.
LiveGamesUndecided ==
    pc = "finish" =>
        \A id \in DOMAIN games :
            \A loaded \in DbGame(Store, id) :
                loaded.ok /\ Outcome(loaded.game).kind = "None"

\* the row the game table loses in this step, as the game it was
Ended == Loaded([Store EXCEPT !.moves = moves'], req'.id).game

\* C10 (termination emission): an accepted input that ends a game posts one
\* artefact: a Victory notice if the outcome is decisive, a Draw report if
\* it is a draw.  After a mating Move the notice names the sender as winner
\* and the holder of the other colour as loser, and its notation ends with
\* that move.  An accepted Move that ends no game posts nothing and leaves
\* the game undecided.
TerminationEmission ==
    [][/\ (Handling /\ status' = "accept" /\ req'.type \in {"move", "resign"}) =>
            \/ /\ req'.id \in DOMAIN games'
               /\ req'.type = "move"
               /\ Outcome(Loaded(Store', req'.id).game).kind = "None"
               /\ outbox' = <<>>
            \/ DOMAIN games \ DOMAIN games' # {}
       /\ (Handling /\ status' = "accept" /\ DOMAIN games \ DOMAIN games' # {}) =>
          /\ req'.id \in DOMAIN games /\ DOMAIN games' = DOMAIN games \ {req'.id}
          /\ Len(outbox') = 1
          /\ outbox'[1].id = req'.id
          /\ IF req'.type = "resign" \/ IsCheckmate(Ended.position)
             THEN outbox'[1].post = "notice" /\ outbox'[1].type = "Victory"
             ELSE outbox'[1].post = "report" /\ outbox'[1].type = "draw"
          /\ (req'.type = "move" /\ IsCheckmate(Ended.position)) =>
                /\ outbox'[1].winner = req'.sender
                /\ outbox'[1].loser = Player(Ended, Turn(Ended))
                /\ outbox'[1].notation # <<>>
                /\ outbox'[1].notation[Len(outbox'[1].notation)].san
                      = [body |-> req'.san.body, tail |-> "#"]]_vars

\* C10 witness: a Move between two addresses mated and was accepted.
TerminationEmissionWitness ==
    /\ pc = "finish" /\ req.type = "move" /\ status = "accept"
    /\ req.id \notin DOMAIN games
    /\ Len(outbox) = 1 /\ outbox[1].post = "notice"
    /\ outbox[1].winner # outbox[1].loser

\* the holder of the colour `player` does not hold in `game`
OtherPlayer(game, player) == IF player = game.white THEN game.black ELSE game.white

\* C11 (resign): a Resign is accepted only for a game that exists, whose
\* current hash is the one supplied, that has no outcome and that the sender
\* plays in; an accepted Resign ends the game through end_game as a
\* Resignation won by the other player and lost by the sender: one Victory
\* notice saying so, the ratings and counters of Db::end_game, the game row
\* deleted.
ResignEndsGame ==
    [][(Handling /\ req'.type = "resign" /\ status' = "accept") =>
          /\ req'.id \in DOMAIN games
          /\ Loaded(Store, req'.id).ok
          /\ LET game == Loaded(Store, req'.id).game
                 outcome == [kind |-> "Resignation",
                             winner |-> OtherPlayer(game, req'.sender),
                             loser |-> req'.sender]
             IN /\ game.hash = req'.hash
                /\ Outcome(game).kind = "None"
                /\ req'.sender \in {game.white, game.black}
                /\ outbox' = <<Victory(req'.id, outcome, GameNotation(Store, req'.id))>>
                /\ outbox'[1].message = <<outcome.winner, "wins by resignation">>
                /\ users' = DbEndGame(Store, game, outcome).db.users
                /\ DOMAIN games' = DOMAIN games \ {req'.id}
                /\ moves' = moves]_vars

\* C11 witness: black resigned the first game before white had moved, and
\* the Resign was accepted.
ResignEndsGameWitness ==
    /\ pc = "finish" /\ req.type = "resign" /\ status = "accept"
    /\ req.id = 1 /\ MoveRows(Store, 1) = {}
    /\ Len(outbox) = 1 /\ outbox[1].loser = req.sender /\ outbox[1].winner # req.sender
    /\ users[req.sender].black_losses = 1

----------------------------------------------------------------------------
(* Properties of the store, checked under SpecStore *)

\* this step is the return of Db::end_game with Ok
EndGameReturnsOk == tx.open /\ tx'.result = "ok"

\* C12 (transactional game end): while Db::end_game runs the tables are
\* as they were when it began; when it returns an error they still are;
\* when it returns Ok both ratings, both counters and the deletion of the
\* game row are applied together.
EndGameAtomic ==
    [][tx.open =>
          \/ (tx'.open \/ tx'.result = "err") /\ UNCHANGED storeVars
          \/ /\ tx'.result = "ok"
             /\ DbEndGame(Store, tx.game, tx.outcome).ok
             /\ Store' = DbEndGame(Store, tx.game, tx.outcome).db
             /\ tx.game.id \notin DOMAIN games'
             /\ users' # users]_vars

\* C12 witness: end_game failed after it had written ratings and counters
\* for a game that is still there.
EndGameAtomicWitness ==
    /\ tx.open /\ tx.step = LastStatement
    /\ tx.users # users
    /\ tx.game.id \in DOMAIN games

\* the two addresses Db::end_game rates, each with its result
RatedFirst == IF IsVictory(tx.outcome) THEN tx.outcome.winner ELSE tx.game.white
RatedSecond == IF IsVictory(tx.outcome) THEN tx.outcome.loser ELSE tx.game.black
ResultOfFirst == IF IsVictory(tx.outcome) THEN "win" ELSE "draw"
ResultOfSecond == IF IsVictory(tx.outcome) THEN "loss" ELSE "draw"

\* the second address's rating comes from both ratings before the call
SecondFromPreUpdate ==
    users'[RatedSecond].elo
        = Update(users[RatedSecond].elo, ResultOfSecond, users[RatedFirst].elo)

\* C13 (ratings use pre-update values), as claimed: after end_game each of
\* the two players has the rating update(own rating before, result against
\* the other's rating before).
PreUpdateRatingsClaimed ==
    [][EndGameReturnsOk =>
          /\ users'[RatedFirst].elo
                = Update(users[RatedFirst].elo, ResultOfFirst, users[RatedSecond].elo)
          /\ SecondFromPreUpdate]_vars

\* C13 amended: the same for two distinct addresses; when one address plays
\* both sides its rating is the second update (the loser's, or black's),
\* computed from the rating before the call.
PreUpdateRatings ==
    [][EndGameReturnsOk =>
          /\ RatedFirst # RatedSecond =>
                users'[RatedFirst].elo
                    = Update(users[RatedFirst].elo, ResultOfFirst, users[RatedSecond].elo)
          /\ SecondFromPreUpdate
          /\ \A a \in DOMAIN users \ {RatedFirst, RatedSecond} : users'[a].elo = users[a].elo]_vars

\* C13 witness: a game between two addresses whose ratings differed has
\* ended, after another game had.
PreUpdateRatingsWitness ==
    /\ tx.result = "ok"
    /\ seq - Cardinality(DOMAIN games) >= 2
    /\ \E a \in DOMAIN users, b \in DOMAIN users :
          /\ users[a].elo > users[b].elo
          /\ users[a].black_wins >= 1 /\ users[b].white_losses >= 1
          /\ users[a].white_draws >= 1

Counters == {"white_wins", "white_losses", "white_draws", "black_wins", "black_losses", "black_draws"}

\* by how much C14 says Db::end_game raises counter `c` of address `a`
Raised(a, c) ==
    LET o == tx.outcome
        winnerIsWhite == o.winner = tx.game.white
        one(cond) == IF cond THEN 1 ELSE 0
    IN IF IsVictory(o)
       THEN one(a = o.winner /\ c = (IF winnerIsWhite THEN "white_wins" ELSE "black_wins"))
              + one(a = o.loser /\ c = (IF winnerIsWhite THEN "black_losses" ELSE "white_losses"))
       ELSE one(a = tx.game.white /\ c = "white_draws")
              + one(a = tx.game.black /\ c = "black_draws")

\* C14 (counter accounting): ending a decisive game adds one to the
\* winner's wins in the winner's colour and one to the loser's losses in
\* the other colour; ending a drawn game adds one to white's white_draws
\* and one to black's black_draws; no other counter of any user changes.
CounterAccounting ==
    [][EndGameReturnsOk =>
          /\ DOMAIN users' = DOMAIN users
          /\ \A a \in DOMAIN users, c \in Counters :
                users'[a][c] = users[a][c] + Raised(a, c)]_vars

\* C14 witness: games have ended won by white, won by black and drawn.
CounterAccountingWitness ==
    /\ tx.result = "ok"
    /\ \E a \in DOMAIN users, b \in DOMAIN users :
          /\ a # b
          /\ users[a].black_wins = 1 /\ users[b].white_losses = 1
          /\ users[b].white_wins = 1 /\ users[a].black_losses = 1
          /\ users[a].black_draws + users[b].black_draws = 1

----------------------------------------------------------------------------
(* Properties of the finish loop, checked under Spec *)

FinishProtocol ==
    /\ pc = "finish" /\ status = "accept"
    /\ [][/\ pc = "request" =>
               /\ pc' = "finish"
               /\ req' # NoRequest
               /\ status' = "accept" <=> err' = ""
               /\ req'.type = "unknown" => status' = "reject"
          /\ pc = "finish" =>
               /\ pc' \in {"finish", "request"}
               /\ status' = status
               /\ UNCHANGED storeVars]_vars

\* C17 (inspect is read-only): handling an inspect request, however it
\* ends, leaves the user, game and move tables as they were.
InspectReadOnly ==
    [][(pc = "request" /\ req'.type = "inspect") => UNCHANGED storeVars]_vars

\* C17 witness: an inspect request was answered with a report of the games
\* of an address, and there is one.
InspectReadOnlyWitness ==
    /\ pc = "finish" /\ req.type = "inspect" /\ status = "accept"
    /\ Len(outbox) = 1 /\ outbox[1].type = "games"
    /\ outbox[1].games # <<>>

\* C18 (an ended game stays ended): a Move or Resign that names an id
\* whose game row is gone is rejected and leaves the store as it was,
\* whoever sends it and whatever hash it carries.
EndedStaysEnded ==
    [][(pc = "request" /\ req'.type \in {"move", "resign"} /\ req'.id \notin DOMAIN games) =>
          /\ pc' = "finish"
          /\ status' = "reject"
          /\ UNCHANGED storeVars]_vars

\* C18 witness: a Move for an ended game came with the hash the game had
\* last and a SAN text, and was rejected.
EndedStaysEndedWitness ==
    /\ pc = "finish" /\ req.type = "move" /\ status = "reject"
    /\ req.id \in 1..seq /\ req.id \notin DOMAIN games
    /\ req.hash \in EndedHashes(req.id)
    /\ req.hash.white # req.hash.black
    /\ req.san.body \in SanSyntax

----------------------------------------------------------------------------
(* Properties of the daemon, checked under SpecDaemon *)

\* C19 (lock discipline), as claimed: no task holds the store mutex while
\* it sleeps out a back-off.
LockReleasedBeforeSleep ==
    \A t \in DOMAIN tasks : tasks[t].pc \in Sleeping => lock # t

\* C20 (moves in order): whenever the daemon's move table changes, one row
\* is added; it is a row of the rollup's move table, and its half move is
\* the next after those the daemon has for that game: no gap, no duplicate,
\* no reordering, under every interleaving and every pattern of errors.
MovesInOrder ==
    [][local'.moves # local.moves =>
          \E row \in local'.moves \ local.moves :
              /\ local'.moves = local.moves \cup {row}
              /\ row \in moves
              /\ row.game \in DOMAIN local.games
              /\ row.half_move = Cardinality(MoveRows(local, row.game)) + 1]_vars

\* C20 witness: the daemon has every move of a rollup game of two plies,
\* the second recorded after a restart, while the other listener sleeps
\* out a store error.
MovesInOrderWitness ==
    \E id \in DOMAIN local.games :
        /\ Cardinality(MoveRows(local, id)) = MaxDaemonPly
        /\ MoveRows(local, id) = MoveRows(Store, id)
        /\ tasks[id].from = MaxDaemonPly + 1
        /\ tasks[id].game.half_move = MaxDaemonPly
        /\ tasks[GamesTask].pc \in Sleeping

----------------------------------------------------------------------------
(* Further properties of the engine, checked under SpecEngine *)

\* C22 (no play after the end), as claimed: Game::play on a game whose
\* outcome() is Some fails, whatever the player, the hash and the SAN (here
\* for the games played from Game::new, far from the ply counter's end).
PlayFailsOnceOver ==
    [][(Outcome(g).kind # "None" /\ FromNew /\ call'.op = "play") => ~call'.ok]_vars

----------------------------------------------------------------------------
(* Further properties of the application, checked under Spec *)

\* the Move input of this step names a game and a hash that an accepted
\* Move input named before
SecondOnHash ==
    Handling /\ req'.type = "move" /\ <<req'.id, req'.hash>> \in DOMAIN accepted

----------------------------------------------------------------------------
(* Properties of the rollup's store, checked under SpecDaemon *)

NewGameFrame ==
    [][DOMAIN games' \ DOMAIN games # {} =>
          LET created == games'[seq']
          IN /\ DOMAIN users' = DOMAIN users \cup {created.white, created.black}
             /\ \A a \in DOMAIN users : users'[a] = users[a]
             /\ \A a \in DOMAIN users' \ DOMAIN users : users'[a] = NewUser
             /\ \A id \in DOMAIN games : id \in DOMAIN games' /\ games'[id] = games[id]
             /\ moves \subseteq moves'
             /\ \A row \in moves' \ moves : row.game = seq']_vars

\* C25 witness: the first game is deleted and its move kept, the second game
\* is between an address whose row carries a finished game and an address
\* whose row is as new_game creates it.
NewGameFrameWitness ==
    /\ DOMAIN games = {2}
    /\ MoveRows(Store, 1) # {}
    /\ users[games[2].black] # NewUser
    /\ users[games[2].white] = NewUser

\* the listener of games, and the ids its stream has yielded that were
\* taken: each has its listener of moves
GamesStream == tasks[GamesTask]
Taken == DOMAIN tasks \ {GamesTask}

\* C30 (game stream cursor): the games a poll yields are in strictly
\* ascending order of id, none was yielded before and each is above every
\* id yielded before; the cursor is the last id yielded. A poll that yields
\* nothing (an error, an unexpected report, no new game) leaves the cursor,
\* and a poll made with a cursor yields only ids above it.
GamesCursor ==
    /\ [](LET buf == GamesStream.buf
          IN /\ \A i, j \in 1..Len(buf) : i < j => buf[i].id < buf[j].id
             /\ \A i \in 1..Len(buf) : buf[i].id \notin Taken
             /\ \A i \in 1..Len(buf) : \A t \in Taken : t < buf[i].id
             /\ buf # <<>> => GamesStream.after = After(buf[Len(buf)].id))
    /\ [][(GamesStream.pc = "next" /\ GamesStream.buf = <<>>
              /\ GamesStream'.pc = "next") =>
             LET buf == GamesStream'.buf
             IN /\ buf = <<>> => GamesStream'.after = GamesStream.after
                /\ buf # <<>> => GamesStream'.after = After(buf[Len(buf)].id)
                /\ GamesStream.after.some =>
                       \A i \in 1..Len(buf) : buf[i].id > GamesStream.after.id]_vars

\* C30 witness: a poll made with the cursor at game 1, which is still in
\* the rollup's store with the daemon's user in it, has yielded game 2 only.
GamesCursorWitness ==
    /\ 1 \in Taken
    /\ 1 \in DOMAIN games
    /\ DaemonAddress \in {games[1].white, games[1].black}
    /\ Len(GamesStream.buf) = 1
    /\ GamesStream.buf[1].id = 2
    /\ GamesStream.after = After(2)

----------------------------------------------------------------------------
(* Properties of the store's queries, checked under Spec *)

\* the request of this step is an inspect of `kind` with `n` well-formed
\* path segments
Asked(kind, n) ==
    /\ pc = "request"
    /\ req'.type = "inspect"
    /\ Len(req'.path) = n
    /\ req'.path[1] = kind

\* C26 (games query), as claimed: for every address and every 32-bit
\* `after`, the largest included, Db::games yields the live games of the
\* address whose id is at least after + 1, in ascending order of id.
GamesQueryExact ==
    [][(/\ Asked("games", 3)
        /\ ParseAddress(req'.path[2]).ok
        /\ ParseNumber(req'.path[3]).ok) =>
          LET address == ParseAddress(req'.path[2]).value
              after == ParseNumber(req'.path[3]).value
              ids == {id \in DOMAIN games :
                        /\ id >= after + 1
                        /\ address \in {games[id].white, games[id].black}}
          IN /\ pc' = "finish"
             /\ outbox' # <<>> =>
                   /\ {outbox'[1].games[i].id : i \in 1..Len(outbox'[1].games)} = ids
                   /\ \A i \in 1..Len(outbox'[1].games) : \A j \in 1..Len(outbox'[1].games) :
                          i < j => outbox'[1].games[i].id < outbox'[1].games[j].id]_vars

\* `texts` are the notations of `rows`, each once, in ascending half move
InHalfMoveOrder(texts, rows) ==
    /\ Len(texts) = Cardinality(rows)
    /\ \A i \in 1..Len(texts) :
          \E row \in rows :
             /\ row.san = texts[i]
             /\ Cardinality({other \in rows : other.half_move < row.half_move}) = i - 1

\* C27 (move history): no step removes or changes a move row; Db::moves
\* yields the notations of the game's rows with half_move >= from in
\* ascending half move; and when a step deletes a game row, moves(id, 1) and
\* game_notation(id) give every move recorded for the game, the last one
\* included, while game(id) reports that the game is not found.
MovesRetained ==
    [][/\ moves \subseteq moves'
       /\ (/\ Asked("moves", 3)
           /\ ParseNumber(req'.path[2]).ok
           /\ ParseNumber(req'.path[3]).ok
           /\ outbox' # <<>>) =>
              InHalfMoveOrder(outbox'[1].moves,
                              {row \in moves : /\ row.game = ParseNumber(req'.path[2]).value
                                               /\ row.half_move >= ParseNumber(req'.path[3]).value})
       /\ \A id \in DOMAIN games \ DOMAIN games' :
              LET after == [users |-> users', games |-> games', moves |-> moves', seq |-> seq']
                  rows == {row \in moves' : row.game = id}
              IN /\ InHalfMoveOrder(SelectSans(after, id, 1), rows)
                 /\ Len(GameNotation(after, id)) = Cardinality(rows)
                 /\ \A i \in 1..Len(GameNotation(after, id)) :
                        GameNotation(after, id)[i].san = SelectSans(after, id, 1)[i]
                 /\ \A loaded \in DbGame(after, id) :
                        ~loaded.ok /\ loaded.err = "game not found"]_vars

\* C27 witness: the moves of a game that has ended, from its second on, were
\* asked for and reported.
MovesRetainedWitness ==
    /\ pc = "finish" /\ req.type = "inspect"
    /\ req.path = <<"moves", "1", "2">>
    /\ 1 \notin DOMAIN games
    /\ outbox # <<>>
    /\ Len(outbox[1].moves) = 2
    /\ Cardinality(MoveRows(Store, 1)) = 3

\* the path names a supported query with the parameters it needs, each
\* parsable, and for "stats" a user that has a row
WellFormed(path) ==
    /\ path # <<>>
    /\ CASE path[1] = "games" ->
               /\ Len(path) >= 2 /\ ParseAddress(path[2]).ok
               /\ Len(path) >= 3 => ParseNumber(path[3]).ok
         [] path[1] = "moves" ->
               /\ Len(path) >= 3 /\ ParseNumber(path[2]).ok
               /\ ParseNumber(path[3]).ok /\ ParseNumber(path[3]).value <= U16Max
         [] path[1] = "stats" ->
               /\ Len(path) >= 2 /\ ParseAddress(path[2]).ok
               /\ ParseAddress(path[2]).value \in DOMAIN users
         [] OTHER -> FALSE

\* the kind of report a query is answered with
ReportKind(query) ==
    CASE query = "games" -> "games"
      [] query = "moves" -> "moves"
      [] query = "stats" -> "userstats"
      [] OTHER -> "none"

\* C29 (inspect dispatch): an inspect request that is accepted has posted
\* exactly one report, of the kind of its query, and was well formed; one
\* with another first segment, a missing or unparsable parameter or an
\* unknown user for "stats" is rejected; a rejected one has posted nothing.
InspectDispatch ==
    [][(pc = "request" /\ req'.type = "inspect" /\ pc' = "finish") =>
          /\ status' \in {"accept", "reject"}
          /\ status' = "accept" =>
                /\ WellFormed(req'.path)
                /\ Len(outbox') = 1
                /\ outbox'[1].post = "report"
                /\ outbox'[1].type = ReportKind(req'.path[1])
          /\ ~WellFormed(req'.path) => status' = "reject"
          /\ status' = "reject" => outbox' = <<>>]_vars

\* C29 witness: the statistics of a user that has finished a game were
\* asked for and reported.
InspectDispatchWitness ==
    /\ pc = "finish" /\ req.type = "inspect" /\ status = "accept"
    /\ req.path = <<"stats", "alice">>
    /\ Len(outbox) = 1
    /\ outbox[1].type = "userstats"
    /\ outbox[1].stats.white_wins = 1

----------------------------------------------------------------------------
(* The round trip through the store, checked under SpecEngine *)

\* the rows Db::record_move writes for the moves of the trail
TrailRows ==
    {[game |-> g.id, half_move |-> trail[i].half_move, san |-> trail[i].text] :
        i \in 1..Len(trail)}

\* the store that holds the game under test and those rows
TrailStore ==
    [EmptyStore EXCEPT !.games = (g.id :> [white |-> g.white, black |-> g.black]),
                       !.moves = TrailRows,
                       !.seq = g.id]

\* each move of the trail has a row: none met the key of an earlier row
\* (the rows of the elided plies have the half moves 1 .. U16Max - 1)
TrailRecorded ==
    /\ Cardinality({row.half_move : row \in TrailRows}) = Len(trail)
    /\ FromNew \/ \A row \in TrailRows : row.half_move \notin 1..(U16Max - 1)

\* Db::game on the store of the game under test.  For a late game the
\* rows of the elided plies replay to LateGame; ORDER BY half_move puts a
\* row with half move 0 before them, and the replay begins with it.
Reloaded ==
    LET texts == SelectSans(TrailStore, g.id, 0)
        sans == [i \in 1..Len(texts) |-> ParseSan(texts[i])]
    IN IF FromNew THEN DbGame(TrailStore, g.id)
       ELSE IF \E row \in TrailRows : row.half_move = 0
            THEN Replay(New(g.id, g.white, g.black), <<sans[1]>>)
            ELSE Replay(LateGame(g.white, g.black), sans)

\* C24 (persistence round trip), as claimed: with every move of the game
\* recorded, Db::game replays the rows in half-move order without failing
\* and returns the in-memory game: the same players, position, half_move
\* and hash.
RoundTrip ==
    (~call.panic /\ TrailRecorded) => \A loaded \in Reloaded : loaded.ok /\ loaded.game = g

\* C28 (notation): over the k recorded moves of a game, game_notation
\* emits k tokens, the moves in half-move order; each odd ply carries its
\* full-move number, each even ply none; after an odd number of plies the
\* last token is white's move, and no moves give the empty string.
NotationFormat ==
    (FromNew /\ TrailRecorded) =>
        LET notation == GameNotation(TrailStore, g.id)
        IN /\ Len(notation) = Len(trail)
           /\ \A i \in 1..Len(notation) :
                 /\ notation[i].san = trail[i].text
                 /\ notation[i].number = IF i % 2 = 1 THEN (i + 1) \div 2 ELSE 0
           /\ trail = <<>> => notation = <<>>

\* C28 witness: three plies are recorded, the third a check by white in the
\* second full move.
NotationFormatWitness ==
    /\ FromNew /\ TrailRecorded
    /\ Len(trail) = 3
    /\ GameNotation(TrailStore, g.id) =
          <<[number |-> 1, san |-> Text("Nf3")], [number |-> 0, san |-> Text("Nf3")],
            [number |-> 2, san |-> [body |-> "Qh5", tail |-> "+"]]>>

----------------------------------------------------------------------------
(* The notation of a move, checked under SpecEngine *)

\* the texts a client may submit for a SAN: with no suffix, with a check
\* and with a mate suffix, whatever the move gives
Submitted == {[body |-> san, tail |-> tail] : san \in SanSyntax, tail \in {"", "+", "#"}}

\* both texts denote one legal move of the game's position
SameMove(first, second) ==
    /\ ToMove(ParseSan(first), g.position) # NoMove
    /\ ToMove(ParseSan(first), g.position) = ToMove(ParseSan(second), g.position)

\* C31 (canonical notation), as claimed: two submissions that denote the
\* same move of the position both succeed and give the same recorded
\* notation and the same game hash; the notation ends with '#' for a
\* checkmate, else '+' for a check, else with no suffix.
CanonicalNotation ==
    \A first, second \in Submitted :
        SameMove(first, second) =>
            \A r1 \in PlayNextMove(g, ParseSan(first)), r2 \in PlayNextMove(g, ParseSan(second)) :
                (~r1.panic /\ ~r2.panic) =>
                    /\ r1.ok /\ r2.ok
                    /\ SanPlusToString(r1.move.san) = SanPlusToString(r2.move.san)
                    /\ r1.game.hash = r2.game.hash
                    /\ SanPlusToString(r1.move.san).tail =
                          (IF IsCheckmate(r1.game.position) THEN "#"
                           ELSE IF IsCheck(r1.game.position) THEN "+" ELSE "")

----------------------------------------------------------------------------
(* The counters of all users, checked under SpecStore *)

RECURSIVE SumOver(_, _, _)
\* the sum of counter `c` over the rows of `addresses`
SumOver(table, addresses, c) ==
    IF addresses = {} THEN 0
    ELSE LET a == CHOOSE address \in addresses : TRUE
         IN table[a][c] + SumOver(table, addresses \ {a}, c)

Total(c) == SumOver(users, DOMAIN users, c)

\* the games that have ended: the ids assigned whose row is gone
EndedGames == (1..seq) \ DOMAIN games

\* C34 (counter conservation): in every state of the store, summed over
\* all users, white_wins equals black_losses, black_wins equals
\* white_losses and white_draws equals black_draws, and white_wins +
\* black_wins + white_draws is the number of games ended with an outcome.
CounterConservation ==
    /\ Total("white_wins") = Total("black_losses")
    /\ Total("black_wins") = Total("white_losses")
    /\ Total("white_draws") = Total("black_draws")
    /\ Total("white_wins") + Total("black_wins") + Total("white_draws")
          = Cardinality(EndedGames)

\* C34 witness: three games have ended, one won by white, one won by
\* black and one drawn, and one user has won as white and drawn as black.
CounterConservationWitness ==
    /\ Cardinality(EndedGames) = 3
    /\ Total("white_wins") = 1 /\ Total("black_wins") = 1 /\ Total("white_draws") = 1
    /\ \E a \in DOMAIN users : users[a].white_wins = 1 /\ users[a].black_draws = 1

----------------------------------------------------------------------------
(* The termination artefact and the store, checked under SpecStore *)

\* C32 (outputs match committed state), as claimed: once the input that
\* posted a Victory notice or Draw report for a game has been handled,
\* Db::end_game has committed for that game: its row is gone and the
\* ratings and counters are the updated ones.
OutputsCommitted ==
    (~tx.open /\ outbox # <<>>) =>
        /\ tx.result = "ok"
        /\ outbox[1].id \notin DOMAIN games

----------------------------------------------------------------------------
(* The player to move, checked under Spec *)

\* the Move input of this step is for a live game, from the player of the
\* colour to move, with the game's current hash and a SAN that is legal
MoveByTurn ==
    /\ Handling /\ req'.type = "move"
    /\ req'.id \in DOMAIN games
    /\ LET loaded == Loaded(Store, req'.id)
       IN /\ loaded.ok
          /\ Outcome(loaded.game).kind = "None"
          /\ req'.sender = Player(loaded.game, Turn(loaded.game))
          /\ req'.hash = loaded.game.hash
          /\ ToMove(ParseSan(req'.san), loaded.game.position) # NoMove

\* C33 (no stuck game), as claimed: a Move for a live game, sent by the
\* player of the colour to move with the current hash and a legal SAN, is
\* accepted (the host taking every post), also when one address plays both
\* sides.
NoStuckGame ==
    [][(MoveByTurn /\ err' # "failed to post") => status' = "accept"]_vars

----------------------------------------------------------------------------
(* The discovery of games, checked under SpecDaemonLive *)

\* game `id` is in the local store
Mirrored(id) == id \in DOMAIN local.games

\* C35 (game discovery), as claimed: every game of the daemon's address
\* created on the rollup is in the end yielded by the stream of games and
\* inserted into the local store, also when it ends before the next poll.
GamesDiscovered ==
    \A id \in 1..MaxDaemonGames :
        (id \in DOMAIN games /\ DaemonAddress \in {games[id].white, games[id].black})
            ~> Mirrored(id)

====
